---- MODULE Spec2Model ----
(***************************************************************************)
(* Model of backend/app/api/endpoints/gemini.py: the multimodal fusion     *)
(* endpoint POST /gemini/analyze with its signal normaliser                *)
(* (_gesture_to_emotion, _text_to_emotion), local estimator                *)
(* (_local_aggregate), LLM client (_call_gemini,                           *)
(* _extract_texts_from_payload, _parse_json_from_text) and merger.         *)
(*                                                                         *)
(* Representation.                                                         *)
(*  - A Python str is a sequence of tokens (TLA+ strings); "" is << >>.    *)
(*    An entry text is a sequence of words; `k in text` is membership of   *)
(*    the keyword among the words.  Japanese keywords are written in       *)
(*    romaji with the prefix ja_ (ja_saikou is the keyword 最高).          *)
(*  - An LLM response text is a sequence over the lexical tokens           *)
(*    F (```), json, W (one whitespace character), "{", "}", Q ("),        *)
(*    5 (a digit), x (a letter) and member-list tokens M_* (the text of    *)
(*    a well-formed "key": value, ... list).                               *)
(*  - Scores are integers in hundredths (0.6 is 60); gesture scores are    *)
(*    tenths (0.5 is 5); confidences are thousandths (0.3 is 300).         *)
(***************************************************************************)
EXTENDS Integers, Sequences, FiniteSets, TLC

VARIABLES
    pc,        \* position of the handler / of the function under check
    entries,   \* AnalyzeRequest.entries
    api_key,    \* whether GOOGLE_API_KEY is set in the environment
    agg,       \* analyze: agg = _local_aggregate(entries)
    payload,   \* _call_gemini: payload = json.loads(resp.read())
    txt,       \* _call_gemini: txt; argument of _parse_json_from_text
    parsed,    \* _call_gemini: parsed; result of _parse_json_from_text
    call,      \* outcome of _call_gemini as seen by analyze
    response,  \* what the HTTP caller of analyze receives
    trace,     \* the calls made during the request, in order
    text,      \* argument of _text_to_emotion
    label      \* result of _text_to_emotion

vars == <<pc, entries, api_key, agg, payload, txt, parsed, call, response,
          trace, text, label>>

-----------------------------------------------------------------------------
(* Bounds of the model *)

MaxTextLen == 2
MaxEntries == 2
MaxReqEntries == 2
MaxTxtLen == 4
MaxParts == 2

\* All sequences over S of length at most n.
SeqUpTo(S, n) == UNION {[1..k -> S] : k \in 0..n}

Range(s) == {s[i] : i \in 1..Len(s)}

-----------------------------------------------------------------------------
(* Signal normaliser *)

NoneLabel == "None"

EmotionLabels ==
    {"happy", "angry", "fear", "sad", "disgust", "surprise", "neutral"}

\* _gesture_to_emotion: `if not label: return None`, then mapping.get(label).
_gesture_to_emotion(lbl) ==
    CASE lbl = NoneLabel \/ lbl = ""                           -> NoneLabel
      [] lbl \in {"Thumb_Up", "Victory", "ILoveYou"}           -> "happy"
      [] lbl \in {"Closed_Fist", "Thumb_Down"}                 -> "angry"
      [] lbl \in {"Open_Palm", "Pointing_Up"}                  -> "neutral"
      [] OTHER                                                 -> NoneLabel

\* The keyword lists of _text_to_emotion, in the order the code tests them.
JaHappy    == {"ja_ureshi", "ja_tano", "ja_saikou", "ja_sugoi", "ja_yokatta",
               "ja_tasukaru"}
JaAngry    == {"ja_oko", "ja_muka", "ja_saiaku", "ja_haradachi", "ja_yuruse"}
JaFear     == {"ja_kowa", "ja_shinpai", "ja_fuan"}
JaDisgust  == {"ja_iya", "ja_yada", "ja_kimo", "ja_unzari"}
JaSad      == {"ja_kana", "ja_na", "ja_tsura", "ja_shindo"}
JaSurprise == {"ja_bikkuri", "ja_odoro"}
EnHappy    == {"great", "awesome", "nice", "love"}
EnAngry    == {"angry", "mad", "furious"}
EnFear     == {"scared", "afraid", "fear"}
EnSad      == {"sad", "unhappy"}
EnSurprise == {"surprised", "wow"}

\* str.lower() on one word: the upper-case spellings the model draws.
LowerWord(w) ==
    CASE w = "GREAT"     -> "great"
      [] w = "Angry"     -> "angry"
      [] w = "Afraid"    -> "afraid"
      [] w = "SAD"       -> "sad"
      [] w = "Wow"       -> "wow"
      [] OTHER           -> w

\* t = text.lower()
Lower(s) == [i \in 1..Len(s) |-> LowerWord(s[i])]

\* any(k in s for k in keys)
AnyIn(keys, s) == \E k \in keys : k \in Range(s)

_text_to_emotion_no_lower(s) ==
    LET t == s IN
    IF AnyIn(JaHappy, s) THEN "happy"
    ELSE IF AnyIn(JaAngry, s) THEN "angry"
    ELSE IF AnyIn(JaFear, s) THEN "fear"
    ELSE IF AnyIn(JaDisgust, s) THEN "disgust"
    ELSE IF AnyIn(JaSad, s) THEN "sad"
    ELSE IF AnyIn(JaSurprise, s) THEN "surprise"
    ELSE IF AnyIn(EnHappy, t) THEN "happy"
    ELSE IF AnyIn(EnAngry, t) THEN "angry"
    ELSE IF AnyIn(EnFear, t) THEN "fear"
    ELSE IF AnyIn(EnSad, t) THEN "sad"
    ELSE IF AnyIn(EnSurprise, t) THEN "surprise"
    ELSE "neutral"

\* _text_to_emotion
_text_to_emotion(s) ==
    LET t == Lower(s) IN
    IF AnyIn(JaHappy, s) THEN "happy"
    ELSE IF AnyIn(JaAngry, s) THEN "angry"
    ELSE IF AnyIn(JaFear, s) THEN "fear"
    ELSE IF AnyIn(JaDisgust, s) THEN "disgust"
    ELSE IF AnyIn(JaSad, s) THEN "sad"
    ELSE IF AnyIn(JaSurprise, s) THEN "surprise"
    ELSE IF AnyIn(EnHappy, t) THEN "happy"
    ELSE IF AnyIn(EnAngry, t) THEN "angry"
    ELSE IF AnyIn(EnFear, t) THEN "fear"
    ELSE IF AnyIn(EnSad, t) THEN "sad"
    ELSE IF AnyIn(EnSurprise, t) THEN "surprise"
    ELSE "neutral"

-----------------------------------------------------------------------------
(* JSON / Python values carried by the result dictionaries *)

\* A JSON value as Python holds it: a str (a token sequence), a number, a
\* dict (a function from keys to values) or None.
EmptyObj == [k \in {} |-> 0]
Str(s) == [t |-> "str", s |-> s, n |-> 0, o |-> EmptyObj]
Num(n) == [t |-> "num", s |-> << >>, n |-> n, o |-> EmptyObj]
Obj(o) == [t |-> "obj", s |-> << >>, n |-> 0, o |-> o]
PyNone == [t |-> "none", s |-> << >>, n |-> 0, o |-> EmptyObj]

\* Python truthiness, as `x or y` tests it.
Truthy(v) ==
    CASE v.t = "str" -> v.s # << >>
      [] v.t = "num" -> v.n # 0
      [] v.t = "obj" -> DOMAIN v.o # {}
      [] OTHER       -> FALSE

\* d.get(k): None when the key is missing.
Get(d, k) == IF k \in DOMAIN d THEN d[k] ELSE PyNone

-----------------------------------------------------------------------------
(* Local fusion estimator: _local_aggregate *)

\* weights = {'emotion': 0.6, 'gesture': 0.3, 'text': 0.1}, in tenths
WeightEmotion == 6
WeightGesture == 3
WeightText == 1
\* 1.0 as a gesture score, in tenths (`e.gesture.score or 1.0`)
ScoreOne == 10
\* `sum(score.values()) or 1.0`, in hundredths
TotalOne == 100
\* confidence = 0.2 when nothing voted, in thousandths
EmptyConfidence == 200
\* min(1.0, ...), in thousandths
ConfidenceOne == 1000

NoScore == -1

\* score[lbl] = score.get(lbl, 0.0) + w on an insertion-ordered dict
AddScore(score, lbl, w) ==
    IF \E i \in 1..Len(score) : score[i].label = lbl
    THEN [i \in 1..Len(score) |->
            IF score[i].label = lbl
            THEN [label |-> lbl, val |-> score[i].val + w]
            ELSE score[i]]
    ELSE Append(score, [label |-> lbl, val |-> w])

\* if e.emotion and e.emotion.dominant_emotion: ...
EmotionVote(score, e) ==
    IF e.emotion # NoneLabel /\ e.emotion # ""
    THEN AddScore(score, e.emotion, WeightEmotion * ScoreOne)
    ELSE score

\* (e.gesture.score or 1.0): None and 0.0 are both falsy
GestureFactor(sc) == IF sc = NoScore \/ sc = 0 THEN ScoreOne ELSE sc

\* if e.gesture and e.gesture.label: ge = ...; if ge: ...
GestureVote(score, e) ==
    IF e.gesture # NoneLabel /\ e.gesture # ""
    THEN LET ge == _gesture_to_emotion(e.gesture) IN
         IF ge # NoneLabel
         THEN AddScore(score, ge, WeightGesture * GestureFactor(e.score))
         ELSE score
    ELSE score

\* if e.text: te = _text_to_emotion(e.text); ...
TextVote(score, e) ==
    IF e.text # << >>
    THEN AddScore(score, _text_to_emotion(e.text), WeightText * ScoreOne)
    ELSE score

\* the body of `for e in entries`
EntryVotes(score, e) == TextVote(GestureVote(EmotionVote(score, e), e), e)

RECURSIVE Accumulate(_, _)
Accumulate(score, es) ==
    IF es = << >> THEN score
    ELSE Accumulate(EntryVotes(score, Head(es)), Tail(es))

RECURSIVE SumVals(_)
SumVals(score) ==
    IF score = << >> THEN 0 ELSE Head(score).val + SumVals(Tail(score))

\* max(score.items(), key=lambda kv: kv[1])[0]: the first maximum
MaxLabel(score) ==
    LET i == CHOOSE i \in 1..Len(score) :
                 /\ \A j \in 1..Len(score) : score[j].val <= score[i].val
                 /\ \A j \in 1..(i - 1) : score[j].val < score[i].val
    IN score[i].label

\* round(x, 3) of x = a / (1000 b), in thousandths: the nearest integer to
\* a / b, ties to even
RoundDiv(a, b) ==
    LET q == a \div b
        r == a % b
    IN IF 2 * r < b THEN q
       ELSE IF 2 * r > b THEN q + 1
       ELSE IF q % 2 = 0 THEN q ELSE q + 1

Min(a, b) == IF a <= b THEN a ELSE b

\* intent_map.get(dominant, '') and inner_map.get(dominant, '')
IntentMap(d) == IF d \in EmotionLabels THEN <<"intent", d>> ELSE << >>
InnerMap(d) == IF d \in EmotionLabels THEN <<"inner", d>> ELSE << >>

\* _local_aggregate.  min(1.0, .) is taken after the rounding here: both
\* orders give the same thousandths.
_local_aggregate(es) ==
    LET score == Accumulate(<< >>, es)
        dominant == IF score = << >> THEN "neutral" ELSE MaxLabel(score)
        total == IF SumVals(score) = 0 THEN TotalOne ELSE SumVals(score)
        won == CHOOSE k \in Range(score) : k.label = dominant
        confidence ==
            IF score = << >> THEN EmptyConfidence
            ELSE Min(ConfidenceOne, RoundDiv(won.val * ConfidenceOne, total))
    IN [summary     |-> Str(<<"sougou", dominant, "yori">>),
        emotion     |-> Str(<<dominant>>),
        intent      |-> Str(IntentMap(dominant)),
        inner_voice |-> Str(InnerMap(dominant)),
        confidence  |-> Num(confidence),
        raw         |-> Obj([score_breakdown |-> score])]

-----------------------------------------------------------------------------
(* LLM response text: json.loads and _parse_json_from_text *)

\* The member lists the model's LLM writes between braces.
MemberTokens == {"M_full", "M_emotion", "M_falsy"}

Members(tok) ==
    CASE tok = "M_full" ->
            [summary     |-> Str(<<"llm_summary">>),
             emotion     |-> Str(<<"sad">>),
             intent      |-> Str(<<"llm_intent">>),
             inner_voice |-> Str(<<"llm_inner">>),
             confidence  |-> Num(900)]
      [] tok = "M_emotion" ->
            [emotion |-> Str(<<"fear">>)]
      [] tok = "M_falsy" ->
            [summary    |-> Str(<< >>),
             emotion    |-> PyNone,
             intent     |-> Str(<<"llm_intent">>),
             confidence |-> Num(0),
             raw        |-> Str(<<"llm_raw">>)]

RECURSIVE LStrip(_)
LStrip(s) == IF s # << >> /\ Head(s) = "W" THEN LStrip(Tail(s)) ELSE s

RECURSIVE RStrip(_)
RStrip(s) ==
    IF s # << >> /\ s[Len(s)] = "W" THEN RStrip(SubSeq(s, 1, Len(s) - 1))
    ELSE s

\* str.strip()
Strip(s) == RStrip(LStrip(s))

\* s without its whitespace tokens
Unspaced(s) == SelectSeq(s, LAMBDA c : c # "W")

RECURSIVE Digits(_)
\* the number a run of n digits 5 denotes
Digits(n) == IF n = 0 THEN 0 ELSE 10 * Digits(n - 1) + 5

Failure == [ok |-> FALSE, val |-> PyNone]
Success(v) == [ok |-> TRUE, val |-> v]

\* json.loads: ok = FALSE stands for the JSONDecodeError it raises.  The
\* texts of the model hold no null, true, false or array.
\* Whitespace around the value and between the structural tokens is
\* skipped; a string is Q ... Q with no quote inside; a number is a run
\* of digits; an object is { } or { members }.
JsonLoads(s) ==
    LET u == Strip(s)
        n == Len(u)
        inner == IF n >= 2 THEN SubSeq(u, 2, n - 1) ELSE << >>
    IN IF n = 0 THEN Failure
       ELSE IF \A i \in 1..n : u[i] = "5" THEN Success(Num(Digits(n)))
       ELSE IF /\ n >= 2 /\ u[1] = "Q" /\ u[n] = "Q"
               /\ \A i \in 1..Len(inner) :
                      inner[i] # "Q" /\ inner[i] \notin MemberTokens
            THEN Success(Str(inner))
       ELSE IF n >= 2 /\ u[1] = "{" /\ u[n] = "}"
            THEN IF Unspaced(inner) = << >> THEN Success(Obj(EmptyObj))
                 ELSE IF /\ Len(Unspaced(inner)) = 1
                         /\ Unspaced(inner)[1] \in MemberTokens
                      THEN Success(Obj(Members(Unspaced(inner)[1])))
                 ELSE Failure
       ELSE Failure

Fences(s) == {i \in 1..Len(s) : s[i] = "F"}

SetMin(S) == CHOOSE x \in S : \A y \in S : x <= y
SetMax(S) == CHOOSE x \in S : \A y \in S : y <= x

\* re.search(r"```(?:json)?\s*([\s\S]*?)```", txt, re.IGNORECASE) matches
\* iff a second fence follows the first.
HasFence(s) == Cardinality(Fences(s)) >= 2

RECURSIVE SkipWs(_, _)
\* \s*: the first index at or after i that holds no whitespace
SkipWs(s, i) == IF i <= Len(s) /\ s[i] = "W" THEN SkipWs(s, i + 1) ELSE i

\* m.group(1): what lies between the opening fence, less an optional json
\* tag and whitespace, and the next fence
FenceCandidate(s) ==
    LET open == SetMin(Fences(s))
        close == SetMin(Fences(s) \ {open})
        tagged == IF s[open + 1] = "json" THEN open + 2 ELSE open + 1
        from == SkipWs(s, tagged)
    IN SubSeq(s, from, close - 1)

\* The inner try of _parse_json_from_text: txt[start:end+1] between the
\* first '{' and the last '}'; None when absent or when it does not parse.
TryBraceSlice(s) ==
    LET opens == {i \in 1..Len(s) : s[i] = "{"}
        closes == {i \in 1..Len(s) : s[i] = "}"}
    IN IF opens # {} /\ closes # {} /\ SetMax(closes) > SetMin(opens)
       THEN LET r == JsonLoads(SubSeq(s, SetMin(opens), SetMax(closes)))
            IN IF r.ok THEN r.val ELSE PyNone
       ELSE PyNone

\* _parse_json_from_text: one try block holds the fenced parse and the
\* direct parse; its except clause holds the brace slice.
_parse_json_from_text(s) ==
    IF s = << >> THEN PyNone
    ELSE IF HasFence(s)
         THEN LET r == JsonLoads(FenceCandidate(s))
              IN IF r.ok THEN r.val ELSE TryBraceSlice(s)
         ELSE LET r == JsonLoads(s)
              IN IF r.ok THEN r.val ELSE TryBraceSlice(s)

-----------------------------------------------------------------------------
(* LLM client: _extract_texts_from_payload and _call_gemini *)

\* "summary": (txt or ...).strip()[:200]
SummaryLimit == 200
\* "confidence": 0.3 of the fallback response, in thousandths
FallbackConfidence == 300

\* A response payload: its JSON shape ("dict", "list" or "null") and, for a
\* dict, candidates[].content.parts[].  A part is a dict with a str text
\* ("text"), a dict whose text is missing or no str ("nontext"), or no dict
\* at all ("notdict").
Part(kind, tx) == [kind |-> kind, text |-> tx]
Payload(shape, cands) == [shape |-> shape, candidates |-> cands]

\* the payload as the value of a result's "raw"
PayloadValue(p) == [t |-> "payload", s |-> << >>, n |-> 0, o |-> p]

RECURSIVE Flatten(_)
Flatten(ss) == IF ss = << >> THEN << >> ELSE Head(ss) \o Flatten(Tail(ss))

RECURSIVE Join(_)
\* "\n".join(texts)
Join(ts) ==
    IF ts = << >> THEN << >>
    ELSE IF Len(ts) = 1 THEN ts[1]
    ELSE ts[1] \o <<"W">> \o Join(Tail(ts))

\* _extract_texts_from_payload: any exception (payload.get on a non-dict,
\* part.get on a non-dict) is caught and gives "".
_extract_texts_from_payload(p) ==
    LET parts == Flatten(p.candidates)
        kept == SelectSeq(parts,
                    LAMBDA q : q.kind = "text" /\ Strip(q.text) # << >>)
    IN IF p.shape # "dict" THEN << >>
       ELSE IF \E i \in 1..Len(parts) : parts[i].kind = "notdict" THEN << >>
       ELSE Strip(Join([i \in 1..Len(kept) |-> kept[i].text]))

\* txt[:n]
Take(s, n) == SubSeq(s, 1, Min(n, Len(s)))

Placeholder == <<"Gemini_no_response">>

FallbackResultUntruncated(p, tx) ==
    [summary     |-> Str(Strip(IF tx # << >> THEN tx ELSE Placeholder)),
     emotion     |-> Str(<<"neutral">>),
     intent      |-> Str(<<"joukyou_kakunin">>),
     inner_voice |-> Str(<<"naishin_yomitorizurai">>),
     confidence  |-> Num(FallbackConfidence),
     raw         |-> PayloadValue(p)]

\* the "fallback structured minimal response" of _call_gemini
FallbackResult(p, tx) ==
    [summary     |-> Str(Take(Strip(IF tx # << >> THEN tx ELSE Placeholder),
                              SummaryLimit)),
     emotion     |-> Str(<<"neutral">>),
     intent      |-> Str(<<"joukyou_kakunin">>),
     inner_voice |-> Str(<<"naishin_yomitorizurai">>),
     confidence  |-> Num(FallbackConfidence),
     raw         |-> PayloadValue(p)]

\* _call_gemini after the payload is read:
\* `if parsed and isinstance(parsed, dict): return parsed`, else the fallback
CallResult(p, tx, pr) ==
    IF Truthy(pr) /\ pr.t = "obj" THEN pr.o ELSE FallbackResult(p, tx)

KeyMissingNever(k) == FALSE

\* `if not api_key: raise RuntimeError(...)`
KeyMissing(k) == ~k

\* what analyze sees of a call: an exception, or the returned dict
Raised(why) == [raised |-> TRUE, error |-> why, result |-> EmptyObj]
Returned(r) == [raised |-> FALSE, error |-> "", result |-> r]

\* what makes request.urlopen / resp.read / json.loads raise
UrlopenErrors == {"timeout", "connection_failure", "http_error", "body_not_json"}

-----------------------------------------------------------------------------
(* Result merger and the handler analyze *)

MergedFields == {"summary", "emotion", "intent", "inner_voice", "confidence"}

\* x or y
Or(x, y) == IF Truthy(x) THEN x ELSE y

MergeRawFromLocal(result, a) ==
    [summary     |-> Or(Get(result, "summary"), a.summary),
     emotion     |-> Or(Get(result, "emotion"), a.emotion),
     intent      |-> Or(Get(result, "intent"), a.intent),
     inner_voice |-> Or(Get(result, "inner_voice"), a.inner_voice),
     confidence  |-> Or(Get(result, "confidence"), a.confidence),
     raw         |-> IF "raw" \in DOMAIN result THEN result.raw ELSE a.raw]

\* merged = {...} of analyze
Merge(result, a) ==
    [summary     |-> Or(Get(result, "summary"), a.summary),
     emotion     |-> Or(Get(result, "emotion"), a.emotion),
     intent      |-> Or(Get(result, "intent"), a.intent),
     inner_voice |-> Or(Get(result, "inner_voice"), a.inner_voice),
     confidence  |-> Or(Get(result, "confidence"), a.confidence),
     raw         |-> Get(result, "raw")]

StatusOk == 200
StatusBadRequest == 400
RespondUncaught(c, a) ==
    IF c.raised
    THEN [status |-> 500, body |-> [detail |-> c.error]]
    ELSE [status |-> StatusOk, body |-> Merge(c.result, a)]

\* try: result = _call_gemini(entries) / except Exception: result = {},
\* then the merge and `return merged`
Respond(c, a) ==
    [status |-> StatusOk,
     body   |-> Merge(IF c.raised THEN EmptyObj ELSE c.result, a)]

EntriesInvalidNever(es) == FALSE

\* `if not entries or len(entries) == 0:`
EntriesInvalid(es) == es = << >>

-----------------------------------------------------------------------------
(* Values left alone by a specification that does not use them *)

Idle == "idle"

\* MultimodalEntry: dominant_emotion, gesture label and score, text
Entry(emo, ges, sc, tx) ==
    [emotion |-> emo, gesture |-> ges, score |-> sc, text |-> tx]

-----------------------------------------------------------------------------
(* _text_to_emotion on every text of at most MaxTextLen words *)

Words ==
    JaHappy \cup JaAngry \cup JaFear \cup JaDisgust \cup JaSad \cup JaSurprise
    \cup EnHappy \cup EnAngry \cup EnFear \cup EnSad \cup EnSurprise
    \cup {"GREAT", "Angry", "Afraid", "SAD", "Wow", "hello"}

InitText ==
    /\ pc = "text_call"
    /\ text \in SeqUpTo(Words, MaxTextLen)
    /\ label = Idle
    /\ entries = << >> /\ api_key = FALSE /\ agg = Idle /\ payload = Idle
    /\ txt = << >> /\ parsed = Idle /\ call = Idle /\ response = Idle
    /\ trace = << >>

ClassifyText ==
    /\ pc = "text_call"
    /\ label' = _text_to_emotion(text)
    /\ pc' = "text_done"
    /\ UNCHANGED <<entries, api_key, agg, payload, txt, parsed, call, response,
                   trace, text>>

NextText == ClassifyText

SpecText == InitText /\ [][NextText]_vars

-----------------------------------------------------------------------------
(* _local_aggregate on every non-empty list of at most MaxEntries entries *)

AggEmotions == {NoneLabel, "happy", "contempt"}
AggGestures ==
    {<<NoneLabel, NoScore>>, <<"Closed_Fist", NoScore>>, <<"Closed_Fist", 0>>,
     <<"Closed_Fist", 5>>, <<"Thumb_Up", 10>>, <<"Wave", 5>>}
AggTexts == {<< >>, <<"ja_saikou">>, <<"hello">>}

AggEntryPool ==
    {Entry(emo, g[1], g[2], tx) :
        emo \in AggEmotions, g \in AggGestures, tx \in AggTexts}

InitAgg ==
    /\ pc = "agg_call"
    /\ entries \in SeqUpTo(AggEntryPool, MaxEntries) \ {<< >>}
    /\ agg = Idle
    /\ api_key = FALSE /\ payload = Idle
    /\ txt = << >> /\ parsed = Idle /\ call = Idle /\ response = Idle
    /\ trace = << >> /\ text = << >> /\ label = Idle

RunLocalAggregate ==
    /\ pc = "agg_call"
    /\ agg' = _local_aggregate(entries)
    /\ pc' = "agg_done"
    /\ UNCHANGED <<entries, api_key, payload, txt, parsed, call, response,
                   trace, text, label>>

NextAgg == RunLocalAggregate

SpecAgg == InitAgg /\ [][NextAgg]_vars

-----------------------------------------------------------------------------
(* _parse_json_from_text on every text of at most MaxTxtLen tokens *)

TxtAlphabet == {"F", "json", "W", "{", "}", "Q", "5", "x", "M_emotion"}

InitParse ==
    /\ pc = "parse_call"
    /\ txt \in SeqUpTo(TxtAlphabet, MaxTxtLen)
    /\ parsed = Idle
    /\ entries = << >> /\ api_key = FALSE /\ agg = Idle /\ payload = Idle
    /\ call = Idle /\ response = Idle
    /\ trace = << >> /\ text = << >> /\ label = Idle

RunParse ==
    /\ pc = "parse_call"
    /\ parsed' = _parse_json_from_text(txt)
    /\ pc' = "parse_done"
    /\ UNCHANGED <<entries, api_key, agg, payload, txt, call, response,
                   trace, text, label>>

NextParse == RunParse

SpecParse == InitParse /\ [][NextParse]_vars

-----------------------------------------------------------------------------
(* One request to POST /gemini/analyze *)

ReqEntryPool ==
    {Entry(NoneLabel, NoneLabel, NoScore, << >>),
     Entry("happy", NoneLabel, NoScore, << >>),
     Entry("contempt", "Closed_Fist", 0, <<"hello">>),
     Entry(NoneLabel, "Thumb_Up", 5, <<"ja_saiaku">>)}

LongText == [i \in 1..(SummaryLimit + 1) |-> "x"]

PartTexts ==
    {<< >>, <<"W">>, <<"x">>, <<"W", "x", "W">>, <<"5">>, <<"{", "}">>,
     <<"{", "M_full", "}">>, <<"{", "M_emotion", "}">>,
     <<"{", "M_falsy", "}">>,
     <<"F", "json", "W", "{", "M_full", "}", "F">>,
     <<"Q", "F", "F", "Q">>, LongText}

PartPool ==
    {Part("text", tx) : tx \in PartTexts}
    \cup {Part("nontext", << >>), Part("notdict", << >>)}

PayloadPool ==
    {Payload("list", << >>), Payload("null", << >>), Payload("dict", << >>)}
    \cup {Payload("dict", <<ps>>) : ps \in SeqUpTo(PartPool, MaxParts)}
    \cup {Payload("dict", <<<<Part("text", a)>>, <<Part("text", b)>>>>) :
            a \in {<<"x">>, <<"{">>}, b \in {<<"M_emotion", "}">>}}

Init ==
    /\ pc = "start"
    /\ entries \in SeqUpTo(ReqEntryPool, MaxReqEntries)
    /\ api_key \in BOOLEAN
    /\ agg = Idle /\ payload = Idle /\ txt = << >> /\ parsed = Idle
    /\ call = Idle /\ response = Idle
    /\ trace = << >> /\ text = << >> /\ label = Idle

\* analyze, lines 215-217: an empty list is refused with HTTP 400
Reject ==
    /\ pc = "start"
    /\ EntriesInvalid(entries)
    /\ response' = [status |-> StatusBadRequest,
                    body |-> [detail |-> "entries_required"]]
    /\ trace' = Append(trace, "reject")
    /\ pc' = "done"
    /\ UNCHANGED <<entries, api_key, agg, payload, txt, parsed, call, text,
                   label>>

\* analyze, line 219: agg = _local_aggregate(entries)
Aggregate ==
    /\ pc = "start"
    /\ ~EntriesInvalid(entries)
    /\ agg' = _local_aggregate(entries)
    /\ trace' = Append(trace, "local_aggregate")
    /\ pc' = "call"
    /\ UNCHANGED <<entries, api_key, payload, txt, parsed, call, response,
                   text, label>>

\* _call_gemini, lines 176-178: no credential, no request
CallWithoutKey ==
    /\ pc = "call"
    /\ KeyMissing(api_key)
    /\ call' = Raised("RuntimeError")
    /\ trace' = Append(trace, "call_gemini")
    /\ pc' = "merge"
    /\ UNCHANGED <<entries, api_key, agg, payload, txt, parsed, response,
                   text, label>>

\* _call_gemini, lines 180-194: the request is built
CallWithKey ==
    /\ pc = "call"
    /\ ~KeyMissing(api_key)
    /\ trace' = Append(trace, "call_gemini")
    /\ pc' = "urlopen"
    /\ UNCHANGED <<entries, api_key, agg, payload, txt, parsed, call,
                   response, text, label>>

\* _call_gemini, lines 195-196: the one request fails (timeout, connection
\* failure, non-success status, body that is no JSON)
UrlopenFails ==
    /\ pc = "urlopen"
    /\ \E why \in UrlopenErrors : call' = Raised(why)
    /\ trace' = Append(trace, "urlopen")
    /\ pc' = "merge"
    /\ UNCHANGED <<entries, api_key, agg, payload, txt, parsed, response,
                   text, label>>

\* _call_gemini, lines 195-210: the request succeeds; the payload is read,
\* its texts extracted and parsed, and the result returned
UrlopenReturns ==
    /\ pc = "urlopen"
    /\ \E p \in PayloadPool :
          /\ payload' = p
          /\ txt' = _extract_texts_from_payload(p)
          /\ parsed' = _parse_json_from_text(_extract_texts_from_payload(p))
          /\ call' = Returned(CallResult(p, _extract_texts_from_payload(p),
                                         _parse_json_from_text(_extract_texts_from_payload(p))))
    /\ trace' = Append(trace, "urlopen")
    /\ pc' = "merge"
    /\ UNCHANGED <<entries, api_key, agg, response, text, label>>

\* analyze, lines 221-234: except, merge, return
MergeAndReturn ==
    /\ pc = "merge"
    /\ response' = Respond(call, agg)
    /\ trace' = Append(trace, "respond")
    /\ pc' = "done"
    /\ UNCHANGED <<entries, api_key, agg, payload, txt, parsed, call, text,
                   label>>

Next ==
    \/ Reject
    \/ Aggregate
    \/ CallWithoutKey
    \/ CallWithKey
    \/ UrlopenFails
    \/ UrlopenReturns
    \/ MergeAndReturn

Spec == Init /\ [][Next]_vars

-----------------------------------------------------------------------------
(* Properties of one request *)

Answered == pc = "done" /\ entries # << >>

\* C1: every request with a non-empty entries list, whatever the outcome of
\* the LLM call, is answered with status 200 and a body carrying exactly
\* summary, emotion, intent, inner_voice, confidence and raw; no exception
\* of the LLM call reaches the caller.
C1_AlwaysAnswers ==
    Answered =>
        /\ response.status = StatusOk
        /\ DOMAIN response.body = MergedFields \cup {"raw"}

C1_Witness ==
    /\ Answered
    /\ call.raised /\ call.error = "timeout"
    /\ response.status = StatusOk

\* C2: when _call_gemini raises (no credential, or any failure of the
\* external call) the five merged fields are those of _local_aggregate for
\* the same entries and raw is None.
C2_FailureGivesLocal ==
    (Answered /\ call.raised) =>
        /\ \A f \in MergedFields : response.body[f] = _local_aggregate(entries)[f]
        /\ response.body.raw = PyNone

C2_Witness ==
    /\ Answered
    /\ call.raised /\ ~api_key
    /\ response.body.emotion = Str(<<"contempt">>)
    /\ response.body.raw = PyNone

\* The JSON object a response text holds when the whole text is well-formed
\* JSON.
WellFormedObject(tx) == JsonLoads(tx).ok /\ JsonLoads(tx).val.t = "obj"

\* C4: when the call succeeds and the response text is a well-formed JSON
\* object, each of the five merged fields is the object's value when that
\* value is present and truthy, and the local estimator's value otherwise.
C4_PerFieldMerge ==
    (Answered /\ ~call.raised /\ WellFormedObject(txt)) =>
        LET llm == JsonLoads(txt).val.o IN
        \A f \in MergedFields :
            response.body[f] =
                IF f \in DOMAIN llm /\ Truthy(llm[f]) THEN llm[f] ELSE agg[f]

\* C5: a request with an empty entries list is refused with HTTP 400, and
\* neither _local_aggregate nor _call_gemini (nor the external request) runs.
C5_EmptyRejected ==
    entries = << >> =>
        /\ Range(trace) \cap {"local_aggregate", "call_gemini", "urlopen"} = {}
        /\ pc = "done" => response.status = StatusBadRequest

C5_Witness ==
    /\ entries = << >>
    /\ pc = "done"
    /\ response.status = StatusBadRequest
    /\ trace = <<"reject">>

\* The three parse attempts of a response text, each on its own.
FencedParses(tx) == HasFence(tx) /\ JsonLoads(FenceCandidate(tx)).ok
DirectParses(tx) == JsonLoads(tx).ok
BraceParses(tx) ==
    \E i, j \in 1..Len(tx) :
        /\ tx[i] = "{" /\ \A k \in 1..(i - 1) : tx[k] # "{"
        /\ tx[j] = "}" /\ \A k \in (j + 1)..Len(tx) : tx[k] # "}"
        /\ i < j
        /\ JsonLoads(SubSeq(tx, i, j)).ok

Unparseable(tx) ==
    tx = << >> \/ (~FencedParses(tx) /\ ~DirectParses(tx) /\ ~BraceParses(tx))

\* C6: when the call succeeds but the response text cannot be parsed (or is
\* empty), the merged response has confidence 0.3, emotion neutral, summary
\* = the first 200 characters of the text (the placeholder when the text is
\* empty) and raw = the whole payload.
C6_ParseDegradation ==
    (Answered /\ ~call.raised /\ Unparseable(txt)) =>
        /\ response.body.confidence = Num(FallbackConfidence)
        /\ response.body.emotion = Str(<<"neutral">>)
        /\ response.body.summary =
              Str(IF txt = << >> THEN Placeholder
                  ELSE [i \in 1..Min(Len(txt), SummaryLimit) |-> txt[i]])
        /\ response.body.raw = PayloadValue(payload)

C6_Witness ==
    /\ Answered
    /\ ~call.raised /\ Unparseable(txt)
    /\ Len(txt) > SummaryLimit
    /\ Len(response.body.summary.s) = SummaryLimit
    /\ agg.emotion = Str(<<"happy">>)

\* How often an event occurs in the trace.
Count(ev) == Cardinality({i \in 1..Len(trace) : trace[i] = ev})

IsPrefix(a, b) == Len(a) <= Len(b) /\ a = SubSeq(b, 1, Len(a))

\* C10: in a request with non-empty entries _local_aggregate completes
\* first, then at most one external call is attempted, then the response is
\* produced; a failed call is not repeated, and without the credential no
\* external call is attempted.
C10_OrderSingleAttempt ==
    entries # << >> =>
        /\ \/ IsPrefix(trace, <<"local_aggregate", "call_gemini", "urlopen",
                               "respond">>)
           \/ IsPrefix(trace, <<"local_aggregate", "call_gemini", "respond">>)
        /\ Count("urlopen") <= 1
        /\ ~api_key => Count("urlopen") = 0
        /\ pc = "done" => trace[Len(trace)] = "respond"

C10_Witness ==
    /\ Answered
    /\ call.raised /\ call.error = "connection_failure"
    /\ trace = <<"local_aggregate", "call_gemini", "urlopen", "respond">>

-----------------------------------------------------------------------------
(* Properties of _local_aggregate *)

ClosedLabels == {<<l>> : l \in EmotionLabels}

\* C3: for every non-empty list of entries _local_aggregate returns a
\* confidence in [0,1] and an emotion of the closed label set.
C3_LocalInRange ==
    pc = "agg_done" =>
        /\ agg.confidence.n \in 0..ConfidenceOne
        /\ agg.emotion.s \in ClosedLabels

\* score.get(lbl, 0.0) of the returned breakdown
ScoreOf(score, lbl) ==
    IF \E i \in 1..Len(score) : score[i].label = lbl
    THEN (CHOOSE k \in Range(score) : k.label = lbl).val
    ELSE 0

\* What one entry adds to a label as the claim states it: 0.6 for its
\* dominant_emotion, 0.3 x score for its mapped gesture (1.0 only when the
\* score is absent), 0.1 for its non-empty text.
ClaimedVote(e, lbl) ==
    (IF e.emotion = lbl THEN WeightEmotion * ScoreOne ELSE 0)
    + (IF _gesture_to_emotion(e.gesture) = lbl
       THEN WeightGesture * (IF e.score = NoScore THEN ScoreOne ELSE e.score)
       ELSE 0)
    + (IF e.text # << >> /\ _text_to_emotion(e.text) = lbl
       THEN WeightText * ScoreOne ELSE 0)

RECURSIVE ClaimedScore(_, _)
ClaimedScore(es, lbl) ==
    IF es = << >> THEN 0
    ELSE ClaimedVote(Head(es), lbl) + ClaimedScore(Tail(es), lbl)

\* C8: the accumulated score of each label is the sum over the entries of
\* 0.6 per dominant_emotion, 0.3 x score per mapped gesture, with the
\* gesture's own score for every value in [0,1] and 1.0 only when it is
\* absent, and 0.1 per classified non-empty text.
C8_ScoreIsWeightedSum ==
    pc = "agg_done" =>
        \A lbl \in EmotionLabels \cup {"contempt"} :
            ScoreOf(agg.raw.o.score_breakdown, lbl) = ClaimedScore(entries, lbl)

-----------------------------------------------------------------------------
(* Properties of _text_to_emotion *)

\* The checks of _text_to_emotion in the order they are made: the Japanese
\* keywords against the text, then the English ones against its lower case.
Checks ==
    <<[cat |-> "happy",    keys |-> JaHappy,    lower |-> FALSE],
      [cat |-> "angry",    keys |-> JaAngry,    lower |-> FALSE],
      [cat |-> "fear",     keys |-> JaFear,     lower |-> FALSE],
      [cat |-> "disgust",  keys |-> JaDisgust,  lower |-> FALSE],
      [cat |-> "sad",      keys |-> JaSad,      lower |-> FALSE],
      [cat |-> "surprise", keys |-> JaSurprise, lower |-> FALSE],
      [cat |-> "happy",    keys |-> EnHappy,    lower |-> TRUE],
      [cat |-> "angry",    keys |-> EnAngry,    lower |-> TRUE],
      [cat |-> "fear",     keys |-> EnFear,     lower |-> TRUE],
      [cat |-> "sad",      keys |-> EnSad,      lower |-> TRUE],
      [cat |-> "surprise", keys |-> EnSurprise, lower |-> TRUE]>>

Matching(s) ==
    {i \in 1..Len(Checks) :
        \E j \in 1..Len(s) :
            (IF Checks[i].lower THEN LowerWord(s[j]) ELSE s[j]) \in Checks[i].keys}

\* C7 (amended): _text_to_emotion returns the category of the first check
\* that matches, the checks being the Japanese keywords of happy, angry,
\* fear, disgust, sad, surprise and then the English keywords (matched
\* without regard to case) of happy, angry, fear, sad, surprise; it returns
\* neutral exactly when no keyword is present, and always a label.
C7_FirstMatchingCheck ==
    pc = "text_done" =>
        /\ label \in EmotionLabels
        /\ label = IF Matching(text) = {} THEN "neutral"
                   ELSE Checks[SetMin(Matching(text))].cat
        /\ Matching(text) = {} => label = "neutral"
        /\ (label = "neutral") => Matching(text) = {}

C7_Witness ==
    /\ pc = "text_done"
    /\ text = <<"GREAT", "ja_na">>
    /\ label = "sad"

Priority == <<"happy", "angry", "fear", "disgust", "sad", "surprise">>

\* Whether a category has one of its keywords, Japanese or English, in s.
Present(cat, s) ==
    \E i \in 1..Len(Checks) : Checks[i].cat = cat /\ i \in Matching(s)

\* C7 (as claimed): the result is the first category of the priority order
\* happy, angry, fear, disgust, sad, surprise that has a keyword, Japanese
\* or English, in the text, and neutral exactly when none has.
C7_PriorityAcrossLanguages ==
    pc = "text_done" =>
        LET present == {i \in 1..Len(Priority) : Present(Priority[i], text)}
        IN label = IF present = {} THEN "neutral"
                   ELSE Priority[SetMin(present)]

-----------------------------------------------------------------------------
(* Properties of _parse_json_from_text *)

\* The ordered chain TryFenced, TryDirect, TryBraceSlice, Failed: each
\* attempt is made only when every earlier one failed.
Chain(tx) ==
    IF tx = << >> THEN PyNone
    ELSE IF FencedParses(tx) THEN JsonLoads(FenceCandidate(tx)).val
    ELSE IF DirectParses(tx) THEN JsonLoads(tx).val
    ELSE TryBraceSlice(tx)

\* C9: _parse_json_from_text returns what the chain fenced block, whole
\* text, brace slice, failure returns.
C9_ParseEqualsChain ==
    pc = "parse_done" => parsed = Chain(txt)

====
